---- MODULE Spec2Model ----
(***************************************************************************)
(* NoteToDo: the TodoPanel controller of the "To-Do & Markdown" panel.     *)
(*                                                                         *)
(* Two live revisions of the class are modelled side by side:              *)
(*   variant = "file"   the file-backed revision (.noteToDo/todo-list.json *)
(*                      and .noteToDo/notes.md in the first workspace      *)
(*                      folder),                                           *)
(*   variant = "keyed"  the keyed-store revision (context.workspaceState   *)
(*                      under two fixed keys).                             *)
(* Every handler runs to completion on the extension host's event loop:    *)
(* the async functions contain no await on a pending operation, so one     *)
(* action is one whole handler.                                            *)
(***************************************************************************)
EXTENDS Integers, Sequences, FiniteSets, TLC

\* ------------------------------------------------------------------ bounds

\* Longest task list the model lets addTask build.
MaxTasks == 2

\* Webview panels that can be alive at once (panel ids 1..MaxPanels).
MaxPanels == 2

\* Disturbances by the environment in one run: an I/O error, an edit of a
\* persisted file from outside, a change of the first workspace folder.
MaxEnvEvents == 1

\* Messages the surface has posted that the extension host has not yet
\* handed to the listener.
MaxInbox == 2

\* Messages the instance has posted that the surface has not yet handled.
MaxOutbox == 2

\* ------------------------------------------------------------------ values

None == "none"

Texts == {"a", "b"}

\* An input of the add-task box that is whitespace only.
Blank == " "

Contents == {"", "# Hello"}

Workspaces == {"w1"}

\* A second folder, which becomes the first workspace folder only where the
\* scopes are followed across a change (SpecScope).
Folders == Workspaces \cup {"w2"}

PanelIds == 1..MaxPanels

\* TodoPanel.currentPanel === undefined
NoPanel == 0

\* interface Task { text: string; completed: boolean }
Task(t, c) == [text |-> t, completed |-> c]

Tasks == [text : Texts, completed : BOOLEAN]

\* A file (or a slot of the keyed store) that does not exist.
AbsentTasksFile == [exists |-> FALSE, data |-> <<>>]

AbsentNoteFile == [exists |-> FALSE, data |-> ""]

AbsentSlot == [exists |-> FALSE, data |-> <<>>]

\* ------------------------------------------------------- JSON (tasks file)

\* Mutant of JSONStringify: the completed flag is not written.
JSONStringifyNoFlags(ts) ==
  LET RECURSIVE Body(_)
      Body(s) ==
        IF s = <<>> THEN <<>>
        ELSE << "{", Head(s).text, "false", "}" >> \o Body(Tail(s))
  IN <<"[">> \o Body(ts) \o <<"]">>

\* JSON.stringify(this._tasks, null, 2): the text of the file as its tokens,
\* "[" then for each task "{" text completed "}" then "]".
JSONStringify(ts) ==
  LET RECURSIVE Body(_)
      Body(s) ==
        IF s = <<>> THEN <<>>
        ELSE << "{", Head(s).text,
                IF Head(s).completed THEN "true" ELSE "false", "}" >>
             \o Body(Tail(s))
  IN <<"[">> \o Body(ts) \o <<"]">>

\* JSON.parse(fileContent): ok = FALSE is the SyntaxError; falsy is a value
\* such as null that `|| []` replaces; otherwise value is the array read.
JSONParse(toks) ==
  LET n == Len(toks)
      RECURSIVE Items(_)
      Items(i) ==
        IF i + 3 > n - 1 THEN <<>>
        ELSE << Task(toks[i + 1], toks[i + 2] = "true") >> \o Items(i + 4)
      WellFormed ==
        /\ n >= 2
        /\ toks[1] = "["
        /\ toks[n] = "]"
        /\ (n - 2) % 4 = 0
        /\ \A k \in 0..((n - 2) \div 4 - 1) :
             /\ toks[2 + 4 * k] = "{"
             /\ toks[3 + 4 * k] \in Texts \cup {Blank}
             /\ toks[4 + 4 * k] \in {"true", "false"}
             /\ toks[5 + 4 * k] = "}"
  IN IF toks = <<"null">> THEN [ok |-> TRUE, falsy |-> TRUE, value |-> <<>>]
     ELSE IF WellFormed THEN [ok |-> TRUE, falsy |-> FALSE, value |-> Items(2)]
     ELSE [ok |-> FALSE, falsy |-> FALSE, value |-> <<>>]

\* ------------------------------------------------------------ list helpers

\* Mutant of filter: only the first match is removed.
filterFirstOnly(ts, taskText) ==
  IF \E i \in 1..Len(ts) : ts[i].text = taskText
  THEN LET i == CHOOSE k \in 1..Len(ts) :
                  /\ ts[k].text = taskText
                  /\ \A j \in 1..(k - 1) : ts[j].text # taskText
       IN SubSeq(ts, 1, i - 1) \o SubSeq(ts, i + 1, Len(ts))
  ELSE ts

\* this._tasks.filter((task) => task.text !== taskText)
filter(ts, taskText) == SelectSeq(ts, LAMBDA task : task.text # taskText)

\* Mutant of find: the last match instead of the first.
findLast(ts, taskText) ==
  IF \E i \in 1..Len(ts) : ts[i].text = taskText
  THEN CHOOSE i \in 1..Len(ts) :
         /\ ts[i].text = taskText
         /\ \A j \in (i + 1)..Len(ts) : ts[j].text # taskText
  ELSE 0

\* find that falls back to the first entry when nothing matches.
findOrFirst(ts, taskText) ==
  IF \E i \in 1..Len(ts) : ts[i].text = taskText
  THEN CHOOSE i \in 1..Len(ts) :
         /\ ts[i].text = taskText
         /\ \A j \in 1..(i - 1) : ts[j].text # taskText
  ELSE IF ts = <<>> THEN 0 ELSE 1

\* this._tasks.find((t) => t.text === taskText): the index of the first
\* match, 0 when find returns undefined.
find(ts, taskText) ==
  IF \E i \in 1..Len(ts) : ts[i].text = taskText
  THEN CHOOSE i \in 1..Len(ts) :
         /\ ts[i].text = taskText
         /\ \A j \in 1..(i - 1) : ts[j].text # taskText
  ELSE 0

B2N(b) == IF b THEN 1 ELSE 0

\* ------------------------------------------------------------------- state

VARIABLES
  variant,            \* which revision of the class runs: "file" or "keyed"
  workspaceFolders,   \* vscode.workspace.workspaceFolders[0], None when empty
  dirs,               \* workspace roots in which the .noteToDo directory exists
  files,              \* the files in .noteToDo of each workspace root
  workspaceState,     \* context.workspaceState: the slots under the two keys
  currentPanel,       \* TodoPanel.currentPanel (the id of its panel), or None
  instances,          \* constructed TodoPanel objects not yet disposed
  panels,             \* webview panels created and not yet closed
  tasks,              \* this._tasks
  markdownContent,    \* this._markdownContent (keyed revision)
  tasksFilePath,      \* this._tasksFilePath: the root it lies under, or None
  markdownFilePath,   \* this._markdownFilePath: the root it lies under, or None
  sentTasks,          \* the latest loadTasks message posted to the panel
  sentNote,           \* the latest loadMarkdownContent message posted
  envEvents,          \* disturbances by the environment so far
  last,               \* the handler that ran last, its input and its effects
  inbox,              \* messages posted by the surface, not yet handled
  expected,           \* what the posted messages make of the state, in send order
  editor,             \* the editor of the surface: its content, and who put it there
  rendered,           \* the entries of the task list the surface shows
  outbox,             \* messages posted by the instance, not yet handled by the surface
  origin              \* the folder each task text and note was typed for

vars == << variant, workspaceFolders, dirs, files, workspaceState, currentPanel,
           instances, panels, tasks, markdownContent, tasksFilePath,
           markdownFilePath, sentTasks, sentNote, envEvents, last,
           inbox, expected, editor, rendered, outbox, origin >>

storeVars == << dirs, files, workspaceState >>

fieldVars == << tasks, markdownContent, tasksFilePath, markdownFilePath >>

panelVars == << currentPanel, instances, panels >>

sentVars == << sentTasks, sentNote >>

viewVars == << rendered, outbox >>

inboxVars == << inbox, expected, editor, viewVars, origin >>

\* quill.root.innerHTML of an empty editor (keyed revision).
EmptyEditor == "<p><br></p>"

\* The editor of a webview whose html was just set: the empty textarea of
\* the file-backed revision, the empty Quill editor of the keyed one.
FreshEditor ==
  [content |-> IF variant = "keyed" THEN EmptyEditor ELSE "", byUser |-> FALSE]

\* The state the surface's messages lead to when they are applied one after
\* the other, from the list ts of the latest load: the list, the note of
\* the latest saveMarkdown (None before the first), and the longest the
\* inbox has been since.
Expected(ts, note, queued) == [tasks |-> ts, note |-> note, queued |-> queued]

NoTasksSent == [sent |-> FALSE, tasks |-> <<>>]

NoNoteSent == [sent |-> FALSE, content |-> ""]

\* One effect of a handler on the store or on the panel, in program order.
\* done: for a save, whether the slot was written; for a post, TRUE.
Effect(k, ts, c, d) == [kind |-> k, tasks |-> ts, content |-> c, done |-> d]

\* pre: this._tasks before a handler that changes the list, <<>> otherwise.
\* after, afterEffects: for a load, the handler that ran before it and its
\* effects, "" and <<>> otherwise.
Last(op, arg, pre, effects) ==
  [op |-> op, arg |-> arg, pre |-> pre, effects |-> effects, after |-> "",
   afterEffects |-> <<>>]

\* Mutant of loadTasksMessage: the message carries the list the handler
\* started with.
loadTasksMessageStale(ts) == [sent |-> TRUE, tasks |-> tasks]

\* postMessage({ command: 'loadTasks', tasks: this._tasks }): the message is
\* a copy of the list as it is when it is posted.
loadTasksMessage(ts) == [sent |-> TRUE, tasks |-> ts]

\* postMessage({ command: 'loadMarkdownContent', content })
loadMarkdownContentMessage(content) == [sent |-> TRUE, content |-> content]

\* --------------------------------------- persistence, file-backed revision

\* setFilePaths() without the mkdirSync: the paths point into a directory
\* that is not created.
setFilePathsNoMkdir(folder, ds, tPath, mPath, mkdirFails) ==
  IF folder # None
  THEN [threw |-> FALSE, dirs |-> ds,
        tasksFilePath |-> folder, markdownFilePath |-> folder]
  ELSE [threw |-> FALSE, dirs |-> ds,
        tasksFilePath |-> tPath, markdownFilePath |-> mPath]

\* setFilePaths(): with a first workspace folder, create .noteToDo when it is
\* missing (mkdirSync may throw: nothing is assigned then) and point both
\* paths into it; with no workspace folder, leave the paths as they are.
setFilePaths(folder, ds, tPath, mPath, mkdirFails) ==
  IF folder # None
  THEN IF folder \notin ds /\ mkdirFails
       THEN [threw |-> TRUE, dirs |-> ds,
             tasksFilePath |-> tPath, markdownFilePath |-> mPath]
       ELSE [threw |-> FALSE, dirs |-> ds \cup {folder},
             tasksFilePath |-> folder, markdownFilePath |-> folder]
  ELSE [threw |-> FALSE, dirs |-> ds,
        tasksFilePath |-> tPath, markdownFilePath |-> mPath]

\* Whether setFilePaths() reaches mkdirSync.
MkdirAttempted(folder, ds) == folder # None /\ folder \notin ds

\* loadTasks() without the try/catch: a read or parse error leaves the
\* function before this._tasks is assigned.
loadTasksNoCatch(fs, tPath, readFails) ==
  IF tPath # None /\ fs[tPath].tasks.exists
  THEN IF readFails
       THEN tasks
       ELSE LET parsed == JSONParse(fs[tPath].tasks.data)
            IN IF ~parsed.ok THEN tasks
               ELSE IF parsed.falsy THEN <<>>
               ELSE parsed.value
  ELSE <<>>

\* loadTasks(): the value assigned to this._tasks.
loadTasks(fs, tPath, readFails) ==
  IF tPath # None /\ fs[tPath].tasks.exists
  THEN IF readFails
       THEN <<>>
       ELSE LET parsed == JSONParse(fs[tPath].tasks.data)
            IN IF ~parsed.ok THEN <<>>
               ELSE IF parsed.falsy THEN <<>>
               ELSE parsed.value
  ELSE <<>>

\* Whether loadTasks() reaches readFileSync.
TasksReadAttempted(fs, tPath) == tPath # None /\ fs[tPath].tasks.exists

\* Mutant of saveTasks: the file is opened for appending.
saveTasksAppend(fs, tPath, ts, writeFails) ==
  IF tPath # None /\ ~writeFails
  THEN [fs EXCEPT ![tPath].tasks =
          [exists |-> TRUE, data |-> fs[tPath].tasks.data \o JSONStringify(ts)]]
  ELSE fs

\* saveTasks() when the text reaches the file although writeFileSync ends
\* with an error.
saveTasksWritesThrough(fs, tPath, ts, writeFails) ==
  IF tPath # None
  THEN [fs EXCEPT ![tPath].tasks = [exists |-> TRUE, data |-> JSONStringify(ts)]]
  ELSE fs

\* saveTasks() that truncates the note next to the tasks file as well.
saveTasksClobbersNote(fs, tPath, ts, writeFails) ==
  IF tPath # None /\ ~writeFails
  THEN [fs EXCEPT ![tPath] = [tasks |-> [exists |-> TRUE, data |-> JSONStringify(ts)],
                              note |-> [exists |-> TRUE, data |-> ""]]]
  ELSE fs

\* saveTasks(): the files afterwards.
saveTasks(fs, tPath, ts, writeFails) ==
  IF tPath # None /\ ~writeFails
  THEN [fs EXCEPT ![tPath].tasks = [exists |-> TRUE, data |-> JSONStringify(ts)]]
  ELSE fs

\* loadMarkdownContent(): whether loadMarkdownContent is posted, and with
\* which content.
loadMarkdownContent(fs, mPath, readFails) ==
  IF mPath # None /\ fs[mPath].note.exists /\ ~readFails
  THEN [posted |-> TRUE, content |-> fs[mPath].note.data]
  ELSE [posted |-> FALSE, content |-> ""]

\* Whether loadMarkdownContent() reaches readFileSync.
NoteReadAttempted(fs, mPath) == mPath # None /\ fs[mPath].note.exists

\* Mutant of saveMarkdownContent: an empty content is not written.
saveMarkdownContentSkipsEmpty(fs, mPath, content, writeFails) ==
  IF mPath # None /\ ~writeFails /\ content # ""
  THEN [fs EXCEPT ![mPath].note = [exists |-> TRUE, data |-> content]]
  ELSE fs

\* saveMarkdownContent(content): the files afterwards.
saveMarkdownContent(fs, mPath, content, writeFails) ==
  IF mPath # None /\ ~writeFails
  THEN [fs EXCEPT ![mPath].note = [exists |-> TRUE, data |-> content]]
  ELSE fs

\* ---------------------------------------- persistence, keyed-store revision

\* context.workspaceState.get<Task[]>(TASKS_KEY, [])
loadTasksKeyed(ws) == IF ws.tasks.exists THEN ws.tasks.data ELSE <<>>

\* context.workspaceState.update(TASKS_KEY, this._tasks)
saveTasksKeyed(ws, ts) == [ws EXCEPT !.tasks = [exists |-> TRUE, data |-> ts]]

\* context.workspaceState.get<string>(MARKDOWN_KEY, '')
loadMarkdownContentKeyed(ws) == IF ws.note.exists THEN ws.note.data ELSE ""

\* context.workspaceState.update(MARKDOWN_KEY, this._markdownContent)
saveMarkdownContentKeyed(ws, content) ==
  [ws EXCEPT !.note = [exists |-> TRUE, data |-> content]]

\* ------------------------------------------------------------------- Init

\* What an earlier session may have left behind.
StoredTasks == << Task("a", FALSE) >>

StoredNote == "# Hello"

EmptyFiles ==
  [w \in Folders |-> [tasks |-> AbsentTasksFile, note |-> AbsentNoteFile]]

EmptyWorkspaceState == [tasks |-> AbsentSlot, note |-> AbsentNoteFile]

\* What the persisted files fs hold, per folder: the note of each notes.md
\* and the text of each task of a todo-list.json that parses to a list.
held(fs) ==
  { << "note", fs[w].note.data, w >> : w \in { v \in Folders : fs[v].note.exists } }
  \cup UNION { LET parsed == IF fs[w].tasks.exists
                             THEN JSONParse(fs[w].tasks.data)
                             ELSE [ok |-> FALSE, falsy |-> FALSE, value |-> <<>>]
                   ts == IF parsed.ok /\ ~parsed.falsy THEN parsed.value ELSE <<>>
               IN { << "task", ts[i].text, w >> : i \in 1..Len(ts) }
               : w \in Folders }

Init ==
  /\ variant \in {"file", "keyed"}
  /\ workspaceFolders \in IF variant = "file" THEN {None, "w1"} ELSE {"w1"}
  /\ \E earlier \in BOOLEAN :
       IF variant = "file"
       THEN /\ workspaceState = EmptyWorkspaceState
            /\ IF earlier
               THEN /\ dirs = {"w1"}
                    /\ files = [EmptyFiles EXCEPT
                         !["w1"] = [tasks |-> [exists |-> TRUE,
                                               data |-> JSONStringify(StoredTasks)],
                                    note |-> [exists |-> TRUE, data |-> StoredNote]]]
               ELSE /\ dirs = {}
                    /\ files = EmptyFiles
       ELSE /\ dirs = {}
            /\ files = EmptyFiles
            /\ workspaceState =
                 IF earlier
                 THEN [tasks |-> [exists |-> TRUE, data |-> StoredTasks],
                       note |-> [exists |-> TRUE, data |-> StoredNote]]
                 ELSE EmptyWorkspaceState
  /\ currentPanel = NoPanel
  /\ instances = {}
  /\ panels = {}
  /\ tasks = <<>>
  /\ markdownContent = ""
  /\ tasksFilePath = None
  /\ markdownFilePath = None
  /\ sentTasks = NoTasksSent
  /\ sentNote = NoNoteSent
  /\ envEvents = 0
  /\ last = Last("init", "", <<>>, <<>>)
  /\ inbox = <<>>
  /\ expected = Expected(<<>>, None, 0)
  /\ editor = FreshEditor
  /\ rendered = <<>>
  /\ outbox = <<>>
  /\ origin = {}

\* ---------------------------------------------------------------- loading

\* An I/O error is a disturbance: it counts against the bound, and only an
\* operation that is attempted can fail.
Faults(n) ==
  /\ envEvents + n <= MaxEnvEvents
  /\ envEvents' = envEvents + n

\* loadData(): loadTasks() then loadMarkdownContent(), reading through the
\* paths tPath and mPath the instance holds at that moment.
loadData(tPath, mPath, tasksReadFails, noteReadFails, op) ==
  IF variant = "file"
  THEN LET ts == loadTasks(files, tPath, tasksReadFails)
           note == loadMarkdownContent(files, mPath, noteReadFails)
       IN /\ tasksReadFails => TasksReadAttempted(files, tPath)
          /\ noteReadFails => NoteReadAttempted(files, mPath)
          /\ tasks' = ts
          /\ markdownContent' = markdownContent
          /\ sentTasks' = loadTasksMessage(ts)
          /\ sentNote' = IF note.posted
                         THEN loadMarkdownContentMessage(note.content)
                         ELSE sentNote
          /\ last' = [Last(op, "", <<>>,
                           << Effect("postTasks", ts, "", TRUE) >>
                           \o IF note.posted
                              THEN << Effect("postNote", <<>>, note.content, TRUE) >>
                              ELSE <<>>)
                      EXCEPT !.after = last.op, !.afterEffects = last.effects]
  ELSE LET ts == loadTasksKeyed(workspaceState)
           note == loadMarkdownContentKeyed(workspaceState)
       IN /\ ~tasksReadFails
          /\ ~noteReadFails
          /\ tasks' = ts
          /\ markdownContent' = note
          /\ sentTasks' = loadTasksMessage(ts)
          /\ sentNote' = loadMarkdownContentMessage(note)
          /\ last' = [Last(op, "", <<>>,
                           << Effect("postTasks", ts, "", TRUE),
                              Effect("postNote", <<>>, note, TRUE) >>)
                      EXCEPT !.after = last.op, !.afterEffects = last.effects]

\* ------------------------------------------------------------- lifecycle

\* The listeners an instance registered (onDidDispose, onDidReceiveMessage,
\* onDidChangeViewState, onDidChangeActiveTextEditor) are in its
\* _disposables and fire until dispose() has released them.
listening == instances # {}

\* createOrShow() with TodoPanel.currentPanel set: reveal the panel and
\* reload through the paths the instance already holds.
createOrShowReveal ==
  /\ currentPanel # NoPanel
  /\ \E tasksReadFails, noteReadFails \in BOOLEAN :
       /\ loadData(tasksFilePath, markdownFilePath,
                   tasksReadFails, noteReadFails, "reveal")
       /\ Faults(B2N(tasksReadFails) + B2N(noteReadFails))
  /\ UNCHANGED << variant, workspaceFolders, storeVars, panelVars,
                  tasksFilePath, markdownFilePath >>

\* The rest of createOrShow(): createWebviewPanel, then the constructor
\* (setFilePaths first, the listeners after it), then TodoPanel.currentPanel
\* is assigned and loadData() runs. A constructor that throws leaves the
\* panel created and nothing else.
construct ==
  /\ \E panel \in PanelIds \ panels :
     \E mkdirFails, tasksReadFails, noteReadFails \in BOOLEAN :
       /\ \A q \in PanelIds \ panels : panel <= q
       /\ panels' = panels \cup {panel}
       /\ IF variant = "file"
          THEN LET sp == setFilePaths(workspaceFolders, dirs, None, None, mkdirFails)
               IN /\ mkdirFails => MkdirAttempted(workspaceFolders, dirs)
                  /\ dirs' = sp.dirs
                  /\ tasksFilePath' = sp.tasksFilePath
                  /\ markdownFilePath' = sp.markdownFilePath
                  /\ IF sp.threw
                     THEN /\ ~tasksReadFails
                          /\ ~noteReadFails
                          /\ UNCHANGED << currentPanel, instances, tasks,
                                          markdownContent, sentVars >>
                          /\ last' = Last("createThrew", "", <<>>, <<>>)
                     ELSE /\ currentPanel' = panel
                          /\ instances' = instances \cup {panel}
                          /\ loadData(sp.tasksFilePath, sp.markdownFilePath,
                                      tasksReadFails, noteReadFails, "create")
          ELSE /\ ~mkdirFails
               /\ UNCHANGED << dirs, tasksFilePath, markdownFilePath >>
               /\ currentPanel' = panel
               /\ instances' = instances \cup {panel}
               /\ loadData(None, None, tasksReadFails, noteReadFails, "create")
       /\ Faults(B2N(mkdirFails) + B2N(tasksReadFails) + B2N(noteReadFails))
  /\ UNCHANGED << variant, workspaceFolders, files, workspaceState >>

\* createOrShow() with no current panel.
createOrShowNew ==
  /\ currentPanel = NoPanel
  /\ construct

\* Mutant of createOrShow: the check of TodoPanel.currentPanel is missing
\* on the constructing path.
createOrShowUnguarded == createOrShowReveal \/ construct

\* public static async createOrShow()
createOrShow == createOrShowReveal \/ createOrShowNew

\* dispose() without the loop over _disposables: the static reference is
\* cleared and the panel goes, the listeners stay registered on the object.
disposeKeepsListeners ==
  /\ currentPanel # NoPanel
  /\ currentPanel' = NoPanel
  /\ panels' = panels \ {currentPanel}
  /\ last' = Last("dispose", "", <<>>, <<>>)
  /\ UNCHANGED << variant, workspaceFolders, storeVars, instances, fieldVars,
                  sentVars, envEvents >>

\* dispose(): run by the panel's onDidDispose when the user closes it. The
\* static reference is cleared, the panel goes and every listener with it.
\* The disposed object is unreachable from then on; its fields are shown
\* as a new object's, which is what the next constructor starts from.
dispose ==
  /\ listening
  /\ currentPanel # NoPanel
  /\ currentPanel' = NoPanel
  /\ instances' = instances \ {currentPanel}
  /\ panels' = panels \ {currentPanel}
  /\ tasks' = <<>>
  /\ markdownContent' = ""
  /\ tasksFilePath' = None
  /\ markdownFilePath' = None
  /\ sentTasks' = NoTasksSent
  /\ sentNote' = NoNoteSent
  /\ last' = Last("dispose", "", <<>>, <<>>)
  /\ UNCHANGED << variant, workspaceFolders, storeVars, envEvents >>

\* The user closes a panel whose constructor threw: no onDidDispose listener
\* was registered on it, so only the panel goes.
closeOrphanPanel ==
  /\ \E panel \in panels \ instances :
       panels' = panels \ {panel}
  /\ last' = Last("closeOrphan", "", <<>>, <<>>)
  /\ UNCHANGED << variant, workspaceFolders, storeVars, currentPanel, instances,
                  fieldVars, sentVars, envEvents >>

\* ------------------------------------------------------- message handlers

\* this.saveTasks() as a step of a handler: the store afterwards. SaveReached
\* says whether the write is reached (a path is set, or the store is keyed).
SaveReached == variant = "keyed" \/ tasksFilePath # None

callSaveTasks(ts, writeFails) ==
  /\ writeFails => (variant = "file" /\ tasksFilePath # None)
  /\ IF variant = "file"
     THEN /\ files' = saveTasks(files, tasksFilePath, ts, writeFails)
          /\ UNCHANGED workspaceState
     ELSE /\ workspaceState' = saveTasksKeyed(workspaceState, ts)
          /\ UNCHANGED files
  /\ Faults(B2N(writeFails))

\* Mutant of push: the new task is put in front.
pushFront(ts, taskText) == << Task(taskText, FALSE) >> \o ts

\* this._tasks.push(newTask)
push(ts, taskText) == Append(ts, Task(taskText, FALSE))

\* addTask(taskText)
addTask(taskText) ==
  /\ Len(tasks) < MaxTasks
  /\ \E writeFails \in BOOLEAN :
       LET ts == push(tasks, taskText)
       IN /\ tasks' = ts
          /\ callSaveTasks(ts, writeFails)
          /\ sentTasks' = loadTasksMessage(ts)
          /\ last' = Last("addTask", taskText, tasks,
                          << Effect("saveTasks", ts, "", SaveReached /\ ~writeFails),
                             Effect("postTasks", ts, "", TRUE) >>)
  /\ UNCHANGED << variant, workspaceFolders, dirs, panelVars, markdownContent,
                  tasksFilePath, markdownFilePath, sentNote >>

\* deleteTask(taskText)
deleteTask(taskText) ==
  /\ \E writeFails \in BOOLEAN :
       LET ts == filter(tasks, taskText)
       IN /\ tasks' = ts
          /\ callSaveTasks(ts, writeFails)
          /\ sentTasks' = loadTasksMessage(ts)
          /\ last' = Last("deleteTask", taskText, tasks,
                          << Effect("saveTasks", ts, "", SaveReached /\ ~writeFails),
                             Effect("postTasks", ts, "", TRUE) >>)
  /\ UNCHANGED << variant, workspaceFolders, dirs, panelVars, markdownContent,
                  tasksFilePath, markdownFilePath, sentNote >>

\* task.completed = true instead of the negation.
flipSetsCompleted(ts, i) == [ts EXCEPT ![i].completed = TRUE]

\* task.completed = !task.completed, on the task found, in place.
flip(ts, i) == [ts EXCEPT ![i].completed = ~ts[i].completed]

\* toggleTaskCompletion(taskText)
toggleTaskCompletion(taskText) ==
  LET i == find(tasks, taskText)
  IN IF i # 0
     THEN /\ \E writeFails \in BOOLEAN :
               LET ts == flip(tasks, i)
               IN /\ tasks' = ts
                  /\ callSaveTasks(ts, writeFails)
                  /\ sentTasks' = loadTasksMessage(ts)
                  /\ last' = Last("toggleTask", taskText, tasks,
                                  << Effect("saveTasks", ts, "",
                                            SaveReached /\ ~writeFails),
                                     Effect("postTasks", ts, "", TRUE) >>)
          /\ UNCHANGED << variant, workspaceFolders, dirs, panelVars,
                          markdownContent, tasksFilePath, markdownFilePath,
                          sentNote >>
     ELSE /\ last' = Last("toggleTask", taskText, tasks, <<>>)
          /\ UNCHANGED << variant, workspaceFolders, storeVars, panelVars,
                          fieldVars, sentVars, envEvents >>

\* The saveMarkdown case answering with a loadMarkdownContent message.
saveMarkdownEchoes(content) ==
  /\ \E writeFails \in BOOLEAN :
       /\ writeFails => (variant = "file" /\ markdownFilePath # None)
       /\ IF variant = "file"
          THEN /\ files' = saveMarkdownContent(files, markdownFilePath, content,
                                               writeFails)
               /\ UNCHANGED << workspaceState, markdownContent >>
          ELSE /\ markdownContent' = content
               /\ workspaceState' = saveMarkdownContentKeyed(workspaceState, content)
               /\ UNCHANGED files
       /\ Faults(B2N(writeFails))
       /\ last' = Last("saveMarkdown", content, <<>>,
                       << Effect("saveNote", <<>>, content,
                                 (variant = "keyed" \/ markdownFilePath # None)
                                 /\ ~writeFails) >>)
  /\ sentNote' = loadMarkdownContentMessage(content)
  /\ UNCHANGED << variant, workspaceFolders, dirs, panelVars, tasks,
                  tasksFilePath, markdownFilePath, sentTasks >>

\* The saveMarkdown case posting the saved content back to the webview.
saveMarkdownBroadcasts(content) ==
  /\ \E writeFails \in BOOLEAN :
       /\ writeFails => (variant = "file" /\ markdownFilePath # None)
       /\ IF variant = "file"
          THEN /\ files' = saveMarkdownContent(files, markdownFilePath, content,
                                               writeFails)
               /\ UNCHANGED << workspaceState, markdownContent >>
          ELSE /\ markdownContent' = content
               /\ workspaceState' = saveMarkdownContentKeyed(workspaceState, content)
               /\ UNCHANGED files
       /\ Faults(B2N(writeFails))
       /\ last' = Last("saveMarkdown", content, <<>>,
                       << Effect("saveNote", <<>>, content,
                                 (variant = "keyed" \/ markdownFilePath # None)
                                 /\ ~writeFails),
                          Effect("postNote", <<>>, content, TRUE) >>)
  /\ sentNote' = loadMarkdownContentMessage(content)
  /\ UNCHANGED << variant, workspaceFolders, dirs, panelVars, tasks,
                  tasksFilePath, markdownFilePath, sentTasks >>

\* The saveMarkdown case: saveMarkdownContent(message.content)
saveMarkdown(content) ==
  /\ \E writeFails \in BOOLEAN :
       /\ writeFails => (variant = "file" /\ markdownFilePath # None)
       /\ IF variant = "file"
          THEN /\ files' = saveMarkdownContent(files, markdownFilePath, content,
                                               writeFails)
               /\ UNCHANGED << workspaceState, markdownContent >>
          ELSE /\ markdownContent' = content
               /\ workspaceState' = saveMarkdownContentKeyed(workspaceState, content)
               /\ UNCHANGED files
       /\ Faults(B2N(writeFails))
       /\ last' = Last("saveMarkdown", content, <<>>,
                       << Effect("saveNote", <<>>, content,
                                 (variant = "keyed" \/ markdownFilePath # None)
                                 /\ ~writeFails) >>)
  /\ UNCHANGED << variant, workspaceFolders, dirs, panelVars, tasks,
                  tasksFilePath, markdownFilePath, sentVars >>

\* What the surface, or anything else holding the webview, can post.
Message(c, t, n) == [command |-> c, text |-> t, content |-> n]

Messages ==
  { Message(c, t, "") : c \in {"addTask", "deleteTask", "toggleTask"}, t \in Texts }
  \cup { Message("saveMarkdown", "", n) : n \in Contents }
  \cup { Message("refresh", "", "") }

\* The listener with a default case that empties the list and posts it.
onDidReceiveMessageDefaultClears(message) ==
  /\ listening
  /\ CASE message.command = "addTask" -> addTask(message.text)
       [] message.command = "deleteTask" -> deleteTask(message.text)
       [] message.command = "toggleTask" -> toggleTaskCompletion(message.text)
       [] message.command = "saveMarkdown" -> saveMarkdown(message.content)
       [] OTHER ->
            /\ last' = Last("ignored", message.command, <<>>, <<>>)
            /\ tasks' = <<>>
            /\ sentTasks' = loadTasksMessage(<<>>)
            /\ UNCHANGED << variant, workspaceFolders, storeVars, panelVars,
                            markdownContent, tasksFilePath, markdownFilePath,
                            sentNote, envEvents >>

\* The listener registered with webview.onDidReceiveMessage: the switch on
\* message.command, which has no default case.
onDidReceiveMessage(message) ==
  /\ listening
  /\ CASE message.command = "addTask" -> addTask(message.text)
       [] message.command = "deleteTask" -> deleteTask(message.text)
       [] message.command = "toggleTask" -> toggleTaskCompletion(message.text)
       [] message.command = "saveMarkdown" -> saveMarkdown(message.content)
       [] OTHER ->
            /\ last' = Last("ignored", message.command, <<>>, <<>>)
            /\ UNCHANGED << variant, workspaceFolders, storeVars, panelVars,
                            fieldVars, sentVars, envEvents >>

\* ------------------------------------------------------------ host events

\* The listener registered with vscode.window.onDidChangeActiveTextEditor.
\* File-backed: setFilePaths() then loadData(); a throwing setFilePaths()
\* ends the listener. Keyed: loadData(context).
onDidChangeActiveTextEditor ==
  /\ listening
  /\ \E mkdirFails, tasksReadFails, noteReadFails \in BOOLEAN :
       /\ IF variant = "file"
          THEN LET sp == setFilePaths(workspaceFolders, dirs, tasksFilePath,
                                      markdownFilePath, mkdirFails)
               IN /\ mkdirFails => MkdirAttempted(workspaceFolders, dirs)
                  /\ dirs' = sp.dirs
                  /\ tasksFilePath' = sp.tasksFilePath
                  /\ markdownFilePath' = sp.markdownFilePath
                  /\ IF sp.threw
                     THEN /\ ~tasksReadFails
                          /\ ~noteReadFails
                          /\ UNCHANGED << tasks, markdownContent, sentVars >>
                          /\ last' = Last("editorChangeThrew", "", <<>>, <<>>)
                     ELSE loadData(sp.tasksFilePath, sp.markdownFilePath,
                                   tasksReadFails, noteReadFails, "editorChange")
          ELSE /\ ~mkdirFails
               /\ UNCHANGED << dirs, tasksFilePath, markdownFilePath >>
               /\ loadData(None, None, tasksReadFails, noteReadFails,
                           "editorChange")
       /\ Faults(B2N(mkdirFails) + B2N(tasksReadFails) + B2N(noteReadFails))
  /\ UNCHANGED << variant, workspaceFolders, files, workspaceState, panelVars >>

\* The panel's view state changes: it is hidden behind another tab, or
\* visible again. The keyed revision registered a listener with
\* panel.onDidChangeViewState: loadData(context) when the panel is visible.
\* The file-backed revision registered none: the event has no handler (an
\* active-editor change may come with it, which is its own event).
onDidChangeViewState(visible) ==
  /\ listening
  /\ IF visible
     THEN IF variant = "keyed"
          THEN loadData(None, None, FALSE, FALSE, "viewState")
          ELSE /\ last' = Last("viewStateNoListener", "", <<>>, <<>>)
               /\ UNCHANGED << tasks, markdownContent, sentVars >>
     ELSE /\ last' = Last("viewStateHidden", "", <<>>, <<>>)
          /\ UNCHANGED << tasks, markdownContent, sentVars >>
  /\ UNCHANGED << variant, workspaceFolders, storeVars, panelVars,
                  tasksFilePath, markdownFilePath, envEvents >>

\* ------------------------------------------------------------ environment

\* vscode.workspace.workspaceFolders changes: another first folder, or none.
\* The keyed revision reads the folders for the panel title only, which is
\* not part of the state, so the change is followed in the file-backed
\* revision alone.
workspaceFoldersChange ==
  /\ variant = "file"
  /\ \E folder \in (Workspaces \cup {None}) \ {workspaceFolders} :
       workspaceFolders' = folder
  /\ Faults(1)
  /\ last' = Last("env", "workspace", <<>>, <<>>)
  /\ UNCHANGED << variant, storeVars, panelVars, fieldVars, sentVars >>

\* Texts a tasks file can be given from outside the extension: a list, the
\* JSON null, and a text JSON.parse rejects.
ExternalTasksTexts ==
  { JSONStringify(<< Task("b", TRUE) >>),
    << "null" >>,
    << "[", "{", "a" >> }

ExternalNote == "# Hello"

\* A persisted file of the file-backed revision is edited, created or
\* deleted from outside the extension.
externalEdit ==
  /\ variant = "file"
  /\ \E w \in Workspaces :
       /\ dirs' = dirs \cup {w}
       /\ \/ \E text \in ExternalTasksTexts :
               files' = [files EXCEPT ![w].tasks = [exists |-> TRUE, data |-> text]]
          \/ files' = [files EXCEPT ![w].tasks = AbsentTasksFile]
          \/ files' = [files EXCEPT ![w].note = [exists |-> TRUE, data |-> ExternalNote]]
          \/ files' = [files EXCEPT ![w].note = AbsentNoteFile]
  /\ files' # files
  /\ Faults(1)
  /\ last' = Last("env", "edit", <<>>, <<>>)
  /\ UNCHANGED << variant, workspaceFolders, workspaceState, panelVars,
                  fieldVars, sentVars >>

\* ------------------------------------------------------------------- Spec

\* Every handler at the moment its event arrives; the messages are handed
\* over as they are posted, so nothing waits in the inbox.
Next ==
  \/ createOrShow /\ UNCHANGED inboxVars
  \/ dispose /\ UNCHANGED inboxVars
  \/ closeOrphanPanel /\ UNCHANGED inboxVars
  \/ \E message \in Messages : onDidReceiveMessage(message) /\ UNCHANGED inboxVars
  \/ onDidChangeActiveTextEditor /\ UNCHANGED inboxVars
  \/ \E visible \in BOOLEAN : onDidChangeViewState(visible) /\ UNCHANGED inboxVars
  \/ workspaceFoldersChange /\ UNCHANGED inboxVars
  \/ externalEdit /\ UNCHANGED inboxVars

Spec == Init /\ [][Next]_vars

\* ------------------------------------------------- messages in flight

\* One message applied to the expected state: what its handler is to do.
Apply(e, message) ==
  CASE message.command = "addTask" ->
         [e EXCEPT !.tasks = Append(e.tasks, Task(message.text, FALSE))]
    [] message.command = "deleteTask" ->
         [e EXCEPT !.tasks = SelectSeq(e.tasks, LAMBDA t : t.text # message.text)]
    [] message.command = "toggleTask" ->
         LET hits == { i \in 1..Len(e.tasks) : e.tasks[i].text = message.text }
         IN IF hits = {} THEN e
            ELSE LET i == CHOOSE k \in hits : \A j \in hits : k <= j
                 IN [e EXCEPT !.tasks[i].completed = ~e.tasks[i].completed]
    [] message.command = "saveMarkdown" -> [e EXCEPT !.note = message.content]
    [] OTHER -> e

RECURSIVE ApplyAll(_, _)
ApplyAll(e, messages) ==
  IF messages = <<>> THEN e
  ELSE ApplyAll(Apply(e, Head(messages)), Tail(messages))

\* The messages the surface posts while others wait: every command on one
\* task text, which makes each pair of them sensitive to its order, and two
\* notes.
OrderMessages ==
  { Message(c, "b", "") : c \in {"addTask", "deleteTask", "toggleTask"} }
  \cup { Message("saveMarkdown", "", n) : n \in Contents }

\* vscode.postMessage(...) in the webview script: the message joins the
\* inbox behind the ones posted before it.
postMessage(message) ==
  /\ listening
  /\ Len(inbox) < MaxInbox
  /\ message.command = "addTask" => Len(expected.tasks) < MaxTasks
  /\ inbox' = Append(inbox, message)
  /\ expected' = [Apply(expected, message) EXCEPT
                    !.queued = IF Len(inbox') > @ THEN Len(inbox') ELSE @]
  /\ UNCHANGED << variant, workspaceFolders, storeVars, panelVars, fieldVars,
                  sentVars, envEvents, last, editor, viewVars >>

\* The listener is handed the newest message of the inbox instead of the
\* oldest.
deliverNewestFirst ==
  /\ inbox # <<>>
  /\ onDidReceiveMessage(inbox[Len(inbox)])
  /\ inbox' = SubSeq(inbox, 1, Len(inbox) - 1)
  /\ UNCHANGED << expected, editor, viewVars >>

\* The extension host fires onDidReceiveMessage with the oldest message of
\* the inbox; the listener runs to its end before the next event.
deliverMessage ==
  /\ inbox # <<>>
  /\ onDidReceiveMessage(Head(inbox))
  /\ inbox' = Tail(inbox)
  /\ UNCHANGED << expected, editor, viewVars >>

\* A load between two messages: the list it assigns is what the messages
\* still in the inbox are applied to.
reloadBetweenMessages ==
  /\ \/ createOrShow
     \/ onDidChangeActiveTextEditor
     \/ onDidChangeViewState(TRUE)
  /\ UNCHANGED << inbox, editor, viewVars >>
  /\ expected' = ApplyAll(Expected(tasks', None, Len(inbox)), inbox)

\* The panel is closed: the webview and what it posted go with it. The
\* unloading document of the keyed revision posts one more saveMarkdown from
\* its beforeunload listener, but dispose() has released the instance's
\* onDidReceiveMessage listener, so neither that message nor one still
\* waiting is handled.
disposeWithInbox ==
  /\ dispose
  /\ inbox' = <<>>
  /\ expected' = Expected(<<>>, None, 0)
  /\ editor' = FreshEditor
  /\ rendered' = <<>>
  /\ outbox' = <<>>

\* The handlers with the messages queued between the surface and the
\* listener, and no I/O error.
NextOrder ==
  \/ \E message \in OrderMessages : postMessage(message) /\ UNCHANGED origin
  \/ deliverMessage /\ envEvents' = envEvents /\ UNCHANGED origin
  \/ reloadBetweenMessages /\ envEvents' = envEvents /\ UNCHANGED origin
  \/ disposeWithInbox /\ UNCHANGED origin

SpecOrder == Init /\ [][NextOrder]_vars

\* ------------------------------------------------------------- auto-save

\* The editor after the surface has received what a load posted: a
\* loadMarkdownContent message replaces its content (editor.value =
\* message.content; quill.root.innerHTML = message.content || '<p><br></p>').
editorAfter(effects, ed) ==
  LET notes == { k \in 1..Len(effects) : effects[k].kind = "postNote" }
  IN IF notes = {} THEN ed
     ELSE LET c == effects[CHOOSE k \in notes : TRUE].content
          IN [content |-> IF variant = "keyed" /\ c = "" THEN EmptyEditor ELSE c,
              byUser |-> FALSE]

\* What the user can put into the editor.
Typed == IF variant = "keyed" THEN Contents \ {""} ELSE Contents

\* The user edits the note. Keyed revision: quill's text-change calls
\* autoSaveMarkdown(), which posts saveMarkdown with the new content.
userEdits(content) ==
  /\ listening
  /\ content # editor.content
  /\ editor' = [content |-> content, byUser |-> TRUE]
  /\ IF variant = "keyed"
     THEN /\ Len(inbox) < MaxInbox
          /\ inbox' = Append(inbox, Message("saveMarkdown", "", content))
     ELSE UNCHANGED inbox
  /\ UNCHANGED << variant, workspaceFolders, storeVars, panelVars, fieldVars,
                  sentVars, envEvents, last, expected, viewVars >>

\* setInterval(saveMarkdown, 5000) of the file-backed revision: the timer
\* posts saveMarkdown with the editor's content as it is.
timerFires ==
  /\ variant = "file"
  /\ listening
  /\ Len(inbox) < MaxInbox
  /\ inbox' = Append(inbox, Message("saveMarkdown", "", editor.content))
  /\ UNCHANGED << variant, workspaceFolders, storeVars, panelVars, fieldVars,
                  sentVars, envEvents, last, expected, editor, viewVars >>

\* The webview's document was set anew by the step: by the constructor's
\* html assignment, or, in the file-backed revision, whose panel is created
\* without retainContextWhenHidden, when the hidden panel is shown again.
documentLoads ==
  \/ last'.op = "create"
  \/ variant = "file" /\ last'.op = "viewStateNoListener"

\* createOrShow, an active-editor change or a view-state change, with no
\* I/O error; the surface shows what the load posted.
openOrReload ==
  /\ \/ createOrShow
     \/ onDidChangeActiveTextEditor
     \/ \E visible \in BOOLEAN : onDidChangeViewState(visible)
  /\ envEvents' = envEvents
  /\ editor' = editorAfter(last'.effects,
                           IF documentLoads THEN FreshEditor ELSE editor)
  /\ UNCHANGED << inbox, expected, viewVars >>

\* The surface with its editor and its auto-save, the listener, the loads
\* and a workspace that may change.
NextAutoSave ==
  \/ \E content \in Typed : userEdits(content) /\ UNCHANGED origin
  \/ timerFires /\ UNCHANGED origin
  \/ deliverMessage /\ UNCHANGED origin
  \/ openOrReload /\ UNCHANGED origin
  \/ disposeWithInbox /\ UNCHANGED origin
  \/ workspaceFoldersChange /\ UNCHANGED inboxVars

\* The timer keeps firing and the host keeps handing over what was posted.
SpecAutoSave ==
  /\ Init
  /\ [][NextAutoSave]_vars
  /\ WF_vars(timerFires /\ UNCHANGED origin)
  /\ WF_vars(deliverMessage /\ UNCHANGED origin)

\* ----------------------------------------------- the surface as a mirror

\* What the user can leave in the add-task box when pressing Add: nothing,
\* whitespace only, or a text.
Inputs == {"", Blank, "b"}

\* String.prototype.trim() on the values of the add-task box.
trim(value) == IF value = Blank THEN "" ELSE value

\* addTask() of the webview script: the messages it posts for the value of
\* the box.
\*   file-backed: const taskText = input.value; if (taskText) { post taskText }
\*   keyed:       if (input.value.trim() === '') return; post input.value.trim()
addTaskPosts(value) ==
  IF variant = "keyed"
  THEN IF trim(value) = "" THEN <<>>
       ELSE << Message("addTask", trim(value), "") >>
  ELSE IF value # "" THEN << Message("addTask", value, "") >>
       ELSE <<>>

\* addTask messages still waiting in the inbox.
addsWaiting == Cardinality({ i \in 1..Len(inbox) : inbox[i].command = "addTask" })

\* The user presses Add with value in the box.
submit(value) ==
  /\ listening
  /\ Len(inbox) + Len(addTaskPosts(value)) <= MaxInbox
  /\ Len(tasks) + addsWaiting + Len(addTaskPosts(value)) <= MaxTasks
  /\ inbox' = inbox \o addTaskPosts(value)
  /\ UNCHANGED << variant, workspaceFolders, storeVars, panelVars, fieldVars,
                  sentVars, envEvents, last, expected, editor, viewVars >>

\* The user clicks the checkbox (file-backed) or the text (keyed) of the
\* i-th rendered entry: toggleTask(task.text).
clickToggle(i) ==
  /\ listening
  /\ i \in 1..Len(rendered)
  /\ Len(inbox) < MaxInbox
  /\ inbox' = Append(inbox, Message("toggleTask", rendered[i].text, ""))
  /\ UNCHANGED << variant, workspaceFolders, storeVars, panelVars, fieldVars,
                  sentVars, envEvents, last, expected, editor, viewVars >>

\* The user clicks the delete button of the i-th rendered entry:
\* deleteTask(task.text).
clickDelete(i) ==
  /\ listening
  /\ i \in 1..Len(rendered)
  /\ Len(inbox) < MaxInbox
  /\ inbox' = Append(inbox, Message("deleteTask", rendered[i].text, ""))
  /\ UNCHANGED << variant, workspaceFolders, storeVars, panelVars, fieldVars,
                  sentVars, envEvents, last, expected, editor, viewVars >>

\* The messages a handler posted to the webview, in program order.
RECURSIVE posted(_)
posted(effects) ==
  IF effects = <<>> THEN <<>>
  ELSE LET e == Head(effects)
       IN CASE e.kind = "postTasks" ->
                 << [command |-> "loadTasks", tasks |-> e.tasks] >>
                   \o posted(Tail(effects))
            [] e.kind = "postNote" ->
                 << [command |-> "loadMarkdownContent", content |-> e.content] >>
                   \o posted(Tail(effects))
            [] OTHER -> posted(Tail(effects))

\* Mutant of renderTasks: the list element is not cleared before the
\* entries of the message are appended.
renderTasksAppends(ul, ts) ==
  ul \o [i \in 1..Len(ts) |-> [text |-> ts[i].text, completed |-> ts[i].completed]]

\* The loadTasks branch of the webview's message listener: the list element
\* is cleared, then one entry per task of the message is appended, showing
\* its text and whether it is completed.
renderTasks(ul, ts) ==
  [i \in 1..Len(ts) |-> [text |-> ts[i].text, completed |-> ts[i].completed]]

\* Mutant of setEditor: a message with empty content leaves the editor as it
\* is.
setEditorSkipsEmpty(ed, content) ==
  IF content = "" THEN ed ELSE [content |-> content, byUser |-> FALSE]

\* The loadMarkdownContent branch of the webview's message listener.
\*   file-backed: editor.value = message.content
\*   keyed:       quill.root.innerHTML = message.content || '<p><br></p>'
setEditor(ed, content) ==
  [content |-> IF variant = "keyed" /\ content = "" THEN EmptyEditor ELSE content,
   byUser |-> FALSE]

\* window.addEventListener('message', ...) of the webview script, handed the
\* oldest message the instance posted.
receiveMessage ==
  /\ outbox # <<>>
  /\ LET message == Head(outbox)
     IN IF message.command = "loadTasks"
        THEN /\ rendered' = renderTasks(rendered, message.tasks)
             /\ editor' = editor
        ELSE /\ editor' = setEditor(editor, message.content)
             /\ rendered' = rendered
  /\ outbox' = Tail(outbox)
  /\ UNCHANGED << variant, workspaceFolders, storeVars, panelVars, fieldVars,
                  sentVars, envEvents, last, inbox, expected >>

\* The listener handles the oldest message of the inbox; what it posts waits
\* in the outbox for the surface.
handleMessage ==
  /\ inbox # <<>>
  /\ onDidReceiveMessage(Head(inbox))
  /\ inbox' = Tail(inbox)
  /\ outbox' = outbox \o posted(last'.effects)
  /\ Len(outbox') <= MaxOutbox
  /\ UNCHANGED << expected, editor, rendered >>

\* createOrShow, an active-editor change or the panel becoming visible
\* again, with the surface: a new document starts empty, and what the load
\* posted waits in the outbox.
openOrReloadMirror ==
  /\ \/ createOrShow
     \/ onDidChangeActiveTextEditor
     \/ onDidChangeViewState(TRUE)
  /\ rendered' = IF documentLoads THEN <<>> ELSE rendered
  /\ editor' = IF documentLoads THEN FreshEditor ELSE editor
  /\ outbox' = (IF documentLoads THEN <<>> ELSE outbox) \o posted(last'.effects)
  /\ Len(outbox') <= MaxOutbox
  /\ UNCHANGED << inbox, expected >>

\* The surface with its task list and its add-task box, the listener, the
\* loads, and the messages waiting in both directions; no I/O error.
NextMirror ==
  \/ \E value \in Inputs : submit(value) /\ UNCHANGED origin
  \/ \E i \in 1..MaxTasks : clickToggle(i) /\ UNCHANGED origin
  \/ \E i \in 1..MaxTasks : clickDelete(i) /\ UNCHANGED origin
  \/ handleMessage /\ envEvents' = envEvents /\ UNCHANGED origin
  \/ receiveMessage /\ UNCHANGED origin
  \/ openOrReloadMirror /\ envEvents' = envEvents /\ UNCHANGED origin
  \/ disposeWithInbox /\ UNCHANGED origin

SpecMirror == Init /\ [][NextMirror]_vars

\* The listener handles a task message as the surface posts it; what it
\* posts waits in the outbox for the surface.
handleAtOnce ==
  /\ \E message \in OrderMessages :
       /\ message.command # "saveMarkdown"
       /\ onDidReceiveMessage(message)
  /\ outbox' = outbox \o posted(last'.effects)
  /\ Len(outbox') <= MaxOutbox
  /\ UNCHANGED << inbox, expected, editor, rendered >>

\* The surface as the receiver of the broadcasts: the handlers and loads
\* that post them, the editor with its auto-save, and the webview's
\* listener; no I/O error.
NextRender ==
  \/ handleAtOnce /\ envEvents' = envEvents /\ UNCHANGED origin
  \/ \E content \in Typed : userEdits(content) /\ UNCHANGED origin
  \/ timerFires /\ UNCHANGED origin
  \/ handleMessage /\ envEvents' = envEvents /\ UNCHANGED origin
  \/ receiveMessage /\ UNCHANGED origin
  \/ openOrReloadMirror /\ envEvents' = envEvents /\ UNCHANGED origin
  \/ disposeWithInbox /\ UNCHANGED origin

SpecRender == Init /\ [][NextRender]_vars

\* quill.on('text-change', ...) of the keyed revision: Quill reports every
\* change of its document, one made by assigning quill.root.innerHTML
\* included, and autoSaveMarkdown() posts saveMarkdown with the content the
\* editor then has; a document left as it was reports nothing. The textarea
\* of the file-backed revision has no such handler.
textChangePosts(before, after) ==
  IF variant = "keyed" /\ after.content # before.content
  THEN << Message("saveMarkdown", "", after.content) >>
  ELSE <<>>

\* The webview's message listener together with the editor's change
\* handler: a loadMarkdownContent that changes the editor's document makes
\* the surface post a saveMarkdown.
receiveMessageEcho ==
  /\ outbox # <<>>
  /\ LET message == Head(outbox)
     IN IF message.command = "loadTasks"
        THEN /\ rendered' = renderTasks(rendered, message.tasks)
             /\ editor' = editor
             /\ inbox' = inbox
        ELSE LET ed == setEditor(editor, message.content)
             IN /\ editor' = ed
                /\ rendered' = rendered
                /\ inbox' = inbox \o textChangePosts(editor, ed)
  /\ Len(inbox') <= MaxInbox
  /\ outbox' = Tail(outbox)
  /\ UNCHANGED << variant, workspaceFolders, storeVars, panelVars, fieldVars,
                  sentVars, envEvents, last, expected >>

\* The loads and the note's messages in both directions, with the editor's
\* change handler answering the broadcasts; no I/O error.
NextEcho ==
  \/ \E content \in Typed : userEdits(content) /\ UNCHANGED origin
  \/ timerFires /\ UNCHANGED origin
  \/ handleMessage /\ envEvents' = envEvents /\ UNCHANGED origin
  \/ receiveMessageEcho /\ UNCHANGED origin
  \/ openOrReloadMirror /\ envEvents' = envEvents /\ UNCHANGED origin
  \/ disposeWithInbox /\ UNCHANGED origin

SpecEcho == Init /\ [][NextEcho]_vars

\* ------------------------------------------------- scopes across a change

\* vscode.workspace.workspaceFolders changes to another first folder out of
\* two, or to none (file-backed revision, see workspaceFoldersChange).
workspaceFoldersSwitch ==
  /\ variant = "file"
  /\ \E folder \in (Folders \cup {None}) \ {workspaceFolders} :
       workspaceFolders' = folder
  /\ Faults(1)
  /\ last' = Last("env", "workspace", <<>>, <<>>)
  /\ UNCHANGED << variant, storeVars, panelVars, fieldVars, sentVars >>

\* The value was typed while folder was the first workspace folder.
typedFor(kind, value, folder) ==
  IF folder = None THEN origin ELSE origin \cup { << kind, value, folder >> }

\* createOrShow or an active-editor change, with no I/O error; the surface
\* shows what the load posted.
openOrEditorChange ==
  /\ createOrShow \/ onDidChangeActiveTextEditor
  /\ envEvents' = envEvents
  /\ editor' = editorAfter(last'.effects,
                           IF documentLoads THEN FreshEditor ELSE editor)
  /\ UNCHANGED << inbox, expected, viewVars >>

\* The surface with its editor, its auto-save and its add-task box, the
\* listener, the loads, and a first workspace folder that changes between
\* two folders; the user types one note and one task text; no I/O error.
NextScope ==
  \/ \E content \in Typed \ {""} :
       userEdits(content) /\ origin' = typedFor("note", content, workspaceFolders)
  \/ submit("b") /\ origin' = typedFor("task", "b", workspaceFolders)
  \/ timerFires /\ UNCHANGED origin
  \/ deliverMessage /\ envEvents' = envEvents /\ UNCHANGED origin
  \/ openOrEditorChange /\ UNCHANGED origin
  \/ disposeWithInbox /\ UNCHANGED origin
  \/ workspaceFoldersSwitch /\ UNCHANGED inboxVars

SpecScope == Init /\ [][NextScope]_vars

TypeOK ==
  /\ variant \in {"file", "keyed"}
  /\ workspaceFolders \in Workspaces \cup {None}
  /\ dirs \subseteq Workspaces
  /\ currentPanel \in PanelIds \cup {NoPanel}
  /\ instances \subseteq PanelIds
  /\ panels \subseteq PanelIds
  /\ \A i \in 1..Len(tasks) : tasks[i] \in Tasks
  /\ Len(tasks) <= MaxTasks
  /\ markdownContent \in Contents
  /\ tasksFilePath \in Workspaces \cup {None}
  /\ markdownFilePath \in Workspaces \cup {None}
  /\ envEvents \in 0..MaxEnvEvents

\* ================================================================= claims

Mutations == {"addTask", "deleteTask", "toggleTask"}

\* The handlers that re-run loadData() on the open instance.
ReloadOps == {"reveal", "editorChange", "viewState"}

\* The last handler changed the list and its save wrote the slot.
SaveWritten == last.effects # <<>> /\ last.effects[1].done

\* The tasks slot the instance writes holds exactly the list ts.
TasksSlotHolds(ts) ==
  IF variant = "file"
  THEN /\ tasksFilePath # None
       /\ files[tasksFilePath].tasks.exists
       /\ JSONParse(files[tasksFilePath].tasks.data)
            = [ok |-> TRUE, falsy |-> FALSE, value |-> ts]
  ELSE workspaceState.tasks = [exists |-> TRUE, data |-> ts]

\* The last handler saved the list ts and then posted it: the save comes
\* first and is given ts, the slot holds ts when the write was made (it is
\* not made only in the file-backed revision, with no path or on an I/O
\* error), and the loadTasks message carries ts.
SavedThenPosted(ts) ==
  /\ Len(last.effects) = 2
  /\ last.effects[1].kind = "saveTasks"
  /\ last.effects[1].tasks = ts
  /\ last.effects[1].done => TasksSlotHolds(ts)
  /\ ~last.effects[1].done => variant = "file"
  /\ last.effects[2].kind = "postTasks"
  /\ last.effects[2].tasks = ts
  /\ sentTasks = [sent |-> TRUE, tasks |-> ts]

\* C1: at most one Controller instance exists after any sequence of
\* createOrShow and dispose, and a createOrShow issued while an instance
\* exists constructs nothing: it keeps the instance and its panel, and
\* reloads.
C1_SingleController ==
  [][ /\ Cardinality(instances') <= 1
      /\ (currentPanel # NoPanel /\ last'.op \in {"reveal", "create", "createThrew"})
           => /\ last'.op = "reveal"
              /\ instances' = instances
              /\ panels' = panels
              /\ currentPanel' = currentPanel
              /\ last'.effects # <<>>
              /\ last'.effects[1].kind = "postTasks" ]_vars

\* C1 witness: a second createOrShow right after the constructing one.
C1_Witness ==
  /\ last.op = "reveal"
  /\ last.after = "create"
  /\ instances = {currentPanel}

\* C2: at most one Controller/panel pair exists: every live panel created by
\* createOrShow is the panel of the singleton Controller, also when the
\* constructor hits an I/O failure.
C2_OnePair ==
  /\ Cardinality(panels) <= 1
  /\ \A panel \in panels : panel = currentPanel

\* C3: addTask(text) appends exactly one entry {text, completed: false} at
\* the end of the list, leaving the earlier entries and their order as they
\* were, then saves the full list, then posts the full list as loadTasks.
C3_AddTaskAppends ==
  last.op = "addTask" =>
    /\ Len(tasks) = Len(last.pre) + 1
    /\ \A i \in 1..Len(last.pre) : tasks[i] = last.pre[i]
    /\ tasks[Len(tasks)] = [text |-> last.arg, completed |-> FALSE]
    /\ SavedThenPosted(tasks)

\* C3 witness: a task added behind a completed one, and persisted.
C3_Witness ==
  /\ last.op = "addTask"
  /\ Len(last.pre) = 1
  /\ last.pre[1].completed
  /\ last.pre[1].text # last.arg
  /\ SaveWritten

\* C4: deleteTask(text) removes all entries whose text equals the argument,
\* keeps every other entry in its original relative order, then saves and
\* posts the resulting list.
C4_DeleteRemovesAll ==
  last.op = "deleteTask" =>
    LET pre == last.pre
        Others(n) == { j \in 1..n : pre[j].text # last.arg }
    IN /\ Len(tasks) = Cardinality(Others(Len(pre)))
       /\ \A i \in Others(Len(pre)) : tasks[Cardinality(Others(i))] = pre[i]
       /\ SavedThenPosted(tasks)

\* C4 witness: two entries with the deleted text, both gone.
C4_Witness ==
  /\ last.op = "deleteTask"
  /\ Len(last.pre) = 2
  /\ last.pre[1].text = last.arg
  /\ last.pre[2].text = last.arg
  /\ tasks = <<>>

\* C5: toggleTask(text) flips completed on the first entry whose text equals
\* the argument and on no other entry; length, order and texts stay; the
\* list is then saved and posted.
C5_ToggleFlipsFirst ==
  (last.op = "toggleTask" /\ \E i \in 1..Len(last.pre) : last.pre[i].text = last.arg)
  => LET pre == last.pre
     IN /\ Len(tasks) = Len(pre)
        /\ \E i \in 1..Len(pre) :
             /\ pre[i].text = last.arg
             /\ \A j \in 1..(i - 1) : pre[j].text # last.arg
             /\ tasks[i] = [text |-> last.arg, completed |-> ~pre[i].completed]
             /\ \A j \in 1..Len(pre) : j # i => tasks[j] = pre[j]
        /\ SavedThenPosted(tasks)

\* C5 witness: two entries with the toggled text, the first one flipped.
C5_Witness ==
  /\ last.op = "toggleTask"
  /\ Len(last.pre) = 2
  /\ last.pre[1].text = last.arg
  /\ last.pre[2].text = last.arg
  /\ tasks[1].completed # last.pre[1].completed
  /\ tasks[2] = last.pre[2]

\* C6: while a Controller is open, the list carried by the most recent
\* loadTasks message equals the in-memory list, after every handled
\* addTask, deleteTask or toggleTask (and after every other handler).
C6_BroadcastEqualsMemory ==
  currentPanel # NoPanel => sentTasks = [sent |-> TRUE, tasks |-> tasks]

\* C6 witness: a toggle was handled on a list of two.
C6_Witness ==
  /\ last.op = "toggleTask"
  /\ last.effects # <<>>
  /\ Len(tasks) = 2
  /\ tasks # last.pre
  /\ sentTasks.tasks = tasks

\* C7 as stated: after every addTask, deleteTask or toggleTask, a reload
\* reproduces from persistence exactly the in-memory list it started with.
C7_ReloadReproducesAlways ==
  [][ (last.op \in Mutations /\ last'.op \in ReloadOps) => tasks' = tasks ]_vars

\* C7 amended: after an addTask, deleteTask or matching toggleTask whose
\* save wrote the tasks slot, a reload that follows at once, reads that same
\* slot and meets no I/O error reproduces exactly the in-memory list.
C7_ReloadReproducesSaved ==
  [][ ( /\ last.op \in Mutations
        /\ SaveWritten
        /\ last'.op \in ReloadOps
        /\ tasksFilePath' = tasksFilePath
        /\ envEvents' = envEvents )
      => tasks' = tasks ]_vars

\* C7 witness: a reload right after a toggle, with the toggled list back
\* from the slot.
C7_Witness ==
  /\ last.op \in ReloadOps
  /\ last.after = "toggleTask"
  /\ tasks # <<>>
  /\ tasks[1].completed
  /\ TasksSlotHolds(tasks)

\* The load that made this step posted loadMarkdownContent with content c.
NotePosted(effects, c) ==
  \E k \in 1..Len(effects) :
    effects[k].kind = "postNote" /\ effects[k].content = c

\* C8 as stated: for every content c, saveMarkdown(c) followed by a reload
\* yields a loadMarkdownContent message whose content is exactly c.
C8_NoteRoundTripAlways ==
  [][ (last.op = "saveMarkdown" /\ last'.op \in ReloadOps)
      => /\ NotePosted(last'.effects, last.arg)
         /\ sentNote' = [sent |-> TRUE, content |-> last.arg] ]_vars

\* C8 amended: for every content c, a saveMarkdown(c) that wrote the note
\* slot, followed at once by a reload that reads that same slot and meets no
\* I/O error, yields a loadMarkdownContent message whose content is c.
C8_NoteRoundTripSaved ==
  [][ ( /\ last.op = "saveMarkdown"
        /\ SaveWritten
        /\ last'.op \in ReloadOps
        /\ markdownFilePath' = markdownFilePath
        /\ envEvents' = envEvents )
      => /\ NotePosted(last'.effects, last.arg)
         /\ sentNote' = [sent |-> TRUE, content |-> last.arg] ]_vars

\* C8 witness: a reload right after a saveMarkdown, posting the saved note.
C8_Witness ==
  /\ last.op \in ReloadOps
  /\ last.after = "saveMarkdown"
  /\ NotePosted(last.effects, "# Hello")
  /\ sentNote = [sent |-> TRUE, content |-> "# Hello"]

\* C9: after every addTask, deleteTask or matching toggleTask whose write is
\* made and succeeds, the persisted tasks slot holds exactly the whole
\* in-memory list: a full overwrite, never an append or a partial write.
C9_SaveIsFullOverwrite ==
  (last.op \in Mutations /\ SaveWritten) => TasksSlotHolds(tasks)

\* C9 witness: a delete shortened a persisted list of two.
C9_Witness ==
  /\ last.op = "deleteTask"
  /\ SaveWritten
  /\ variant = "file"
  /\ Len(last.pre) = 2
  /\ Len(tasks) = 1

\* What load is to return for the scope of the first workspace folder: the
\* tasks persisted there, none when the slot is missing or unreadable.
PersistedTasks ==
  IF variant = "file"
  THEN IF workspaceFolders # None /\ files[workspaceFolders].tasks.exists
       THEN LET parsed == JSONParse(files[workspaceFolders].tasks.data)
            IN IF parsed.ok /\ ~parsed.falsy THEN parsed.value ELSE <<>>
       ELSE <<>>
  ELSE IF workspaceState.tasks.exists THEN workspaceState.tasks.data ELSE <<>>

\* The note persisted for that scope, the empty note when there is none.
PersistedNote ==
  IF variant = "file"
  THEN IF workspaceFolders # None /\ files[workspaceFolders].note.exists
       THEN files[workspaceFolders].note.data
       ELSE ""
  ELSE IF workspaceState.note.exists THEN workspaceState.note.data ELSE ""

\* C10: createOrShow while open re-runs load: afterwards the in-memory list
\* equals the tasks persisted for the current workspace scope, and loadTasks
\* and loadMarkdownContent messages carrying the reloaded values are posted.
C10_RevealReloads ==
  last.op = "reveal" =>
    /\ tasks = PersistedTasks
    /\ last.effects = << Effect("postTasks", PersistedTasks, "", TRUE),
                         Effect("postNote", <<>>, PersistedNote, TRUE) >>
    /\ sentTasks = [sent |-> TRUE, tasks |-> PersistedTasks]
    /\ sentNote = [sent |-> TRUE, content |-> PersistedNote]

\* The persisted tasks and note, of either revision.
Persisted == << files, workspaceState >>

\* C11: dispose clears the singleton reference and releases every listener
\* of the instance: the Controller is Closed, and while it is Closed no
\* surface message and no host event changes the in-memory or the persisted
\* tasks and note (only a change made from outside the extension does);
\* the next createOrShow constructs a fresh instance on a new panel.
C11_DisposeCloses ==
  [][ /\ last'.op = "dispose"
        => /\ currentPanel' = NoPanel
           /\ instances' = {}
           /\ panels' = panels \ {currentPanel}
      /\ (currentPanel = NoPanel /\ last'.op \notin {"create", "createThrew", "env"})
        => /\ tasks' = tasks
           /\ markdownContent' = markdownContent
           /\ Persisted' = Persisted
      /\ (currentPanel = NoPanel /\ last'.op = "create")
        => /\ currentPanel' \notin panels
           /\ instances' = {currentPanel'}
           /\ Persisted' = Persisted ]_vars

\* C11 witness: a fresh instance constructed right after a dispose, with
\* the tasks saved before the dispose loaded back.
C11_Witness ==
  /\ last.op = "create"
  /\ last.after = "dispose"
  /\ instances = {currentPanel}
  /\ Len(tasks) = 2

\* The handlers that run loadData(): the constructing createOrShow and the
\* reloads.
LoadOps == ReloadOps \cup {"create"}

\* The tasks file the instance reads exists and JSON.parse rejects its text.
TasksFileUnparseable ==
  /\ variant = "file"
  /\ tasksFilePath # None
  /\ files[tasksFilePath].tasks.exists
  /\ ~JSONParse(files[tasksFilePath].tasks.data).ok

\* C12: a load that finds the persisted tasks unparseable assigns the empty
\* list, posts loadTasks with the empty list and completes with the
\* instance open.
C12_CorruptedLoadsEmpty ==
  (last.op \in LoadOps /\ TasksFileUnparseable)
  => /\ tasks = <<>>
     /\ last.effects # <<>>
     /\ last.effects[1] = Effect("postTasks", <<>>, "", TRUE)
     /\ sentTasks = [sent |-> TRUE, tasks |-> <<>>]
     /\ currentPanel # NoPanel

\* C12 witness: a reload right after the tasks file was overwritten from
\* outside with a text that does not parse; the note is still loaded.
C12_Witness ==
  /\ last.op \in ReloadOps
  /\ last.after = "env"
  /\ TasksFileUnparseable
  /\ tasks = <<>>
  /\ sentTasks = [sent |-> TRUE, tasks |-> <<>>]
  /\ sentNote = [sent |-> TRUE, content |-> StoredNote]

\* Nothing is persisted in the tasks slot of the scope the instance loads
\* from.
TasksSlotMissing ==
  IF variant = "file"
  THEN tasksFilePath = None \/ ~files[tasksFilePath].tasks.exists
  ELSE ~workspaceState.tasks.exists

\* Nothing is persisted in the note slot of that scope.
NoteSlotMissing ==
  IF variant = "file"
  THEN markdownFilePath = None \/ ~files[markdownFilePath].note.exists
  ELSE ~workspaceState.note.exists

\* C13: a load that finds nothing persisted for its scope returns
\* the empty list for the tasks slot and the empty string for the note
\* slot: the list in memory and on the surface is empty, and so is the
\* note the surface holds from the instance.
C13_MissingLoadsEmpty ==
  last.op \in LoadOps =>
    /\ TasksSlotMissing =>
         /\ tasks = <<>>
         /\ sentTasks = [sent |-> TRUE, tasks |-> <<>>]
    /\ NoteSlotMissing =>
         /\ sentNote.content = ""
         /\ markdownContent = ""

\* The first effect of a handler is a saveTasks() that reached
\* writeFileSync through the path tPath and was not written: the write
\* failed.
WriteFailed(effects, tPath) ==
  /\ variant = "file"
  /\ tPath # None
  /\ effects # <<>>
  /\ effects[1].kind = "saveTasks"
  /\ ~effects[1].done

\* What the mutation op with argument arg makes of the list ts.
Mutated(ts, op, arg) ==
  CASE op = "addTask" -> ts \o << [text |-> arg, completed |-> FALSE] >>
    [] op = "deleteTask" -> SelectSeq(ts, LAMBDA t : t.text # arg)
    [] op = "toggleTask" ->
         LET first == { i \in 1..Len(ts) :
                          /\ ts[i].text = arg
                          /\ \A j \in 1..(i - 1) : ts[j].text # arg }
         IN [i \in 1..Len(ts) |->
               IF i \in first THEN [ts[i] EXCEPT !.completed = ~ts[i].completed]
               ELSE ts[i]]

\* The list held by the tasks file under tPath, none when there is no file
\* or no list in it.
TasksFileValue(tPath) ==
  IF files[tPath].tasks.exists
  THEN LET parsed == JSONParse(files[tPath].tasks.data)
       IN IF parsed.ok /\ ~parsed.falsy THEN parsed.value ELSE <<>>
  ELSE <<>>

\* C14: when the write of the tasks slot fails during addTask, deleteTask
\* or toggleTask, the failure is swallowed: the list in memory and the
\* loadTasks message carry the mutation, the instance stays open and the
\* persisted slot keeps the value it had; a reload of that slot that
\* follows returns that previous value.
C14_WriteFailureSwallowed ==
  [][ /\ (last'.op \in Mutations /\ WriteFailed(last'.effects, tasksFilePath'))
        => /\ tasks' = Mutated(tasks, last'.op, last'.arg)
           /\ sentTasks' = [sent |-> TRUE, tasks |-> tasks']
           /\ Persisted' = Persisted
           /\ panelVars' = panelVars
      /\ ( /\ last.op \in Mutations
           /\ WriteFailed(last.effects, tasksFilePath)
           /\ last'.op \in ReloadOps
           /\ tasksFilePath' = tasksFilePath
           /\ envEvents' = envEvents )
        => /\ tasks' = TasksFileValue(tasksFilePath)
           /\ sentTasks' = [sent |-> TRUE, tasks |-> tasks']
           /\ Persisted' = Persisted ]_vars

\* C14 witness: a reload right after an addTask whose write failed; the
\* added task is gone and the stored list is back.
C14_Witness ==
  /\ last.op \in ReloadOps
  /\ last.after = "addTask"
  /\ WriteFailed(last.afterEffects, tasksFilePath)
  /\ last.afterEffects[1].tasks = StoredTasks \o << [text |-> "b", completed |-> FALSE] >>
  /\ tasks = StoredTasks
  /\ sentTasks = [sent |-> TRUE, tasks |-> StoredTasks]

\* The handlers as they end when an I/O error leaves them as an exception.
ThrewOps == {"createThrew", "editorChangeThrew"}

\* The handlers of an open instance, and createOrShow.
HandlerOps ==
  LoadOps \cup Mutations \cup ThrewOps
  \cup {"saveMarkdown", "viewStateHidden", "viewStateNoListener", "ignored"}

\* C15: no I/O failure leaves a Controller operation as an exception: a
\* failing read degrades to a default, a failing write is swallowed, so
\* createOrShow always ends with the instance open and every handler of an
\* open instance leaves it open.
C15_NoFailurePropagates ==
  /\ last.op \notin ThrewOps
  /\ last.op \in HandlerOps => currentPanel # NoPanel /\ instances = {currentPanel}

\* C16: with no workspace folder open (file-backed revision) add, delete,
\* toggle and saveMarkdown write no file, and the list lives on in memory:
\* a reveal or an active-editor change leaves the list of the instance and
\* the list on the surface as they were.
C16_NoWorkspaceInMemory ==
  [][ (variant = "file" /\ workspaceFolders = None /\ workspaceFolders' = None)
      => /\ last'.op \in Mutations \cup {"saveMarkdown"} => Persisted' = Persisted
         /\ last'.op \in ReloadOps =>
              /\ tasks' = tasks
              /\ sentTasks'.tasks = tasks ]_vars

\* The note slot the instance writes holds the content c.
NoteSlotHolds(c) ==
  IF variant = "file"
  THEN markdownFilePath # None => files[markdownFilePath].note = [exists |-> TRUE, data |-> c]
  ELSE workspaceState.note = [exists |-> TRUE, data |-> c] /\ markdownContent = c

\* C17: the messages of the surface are handled one at a time in the order
\* they were sent: whenever all of them are handled, the list of the
\* instance is what applying them one after the other in send order gives,
\* and the note is the one of the latest saveMarkdown.
C17_HandledInSendOrder ==
  inbox = <<>> =>
    /\ tasks = expected.tasks
    /\ expected.note # None => NoteSlotHolds(expected.note)

\* C17 witness: an addTask and a toggleTask of the same text were in the
\* inbox together and both are handled: the task is there and completed.
C17_Witness ==
  /\ inbox = <<>>
  /\ expected.queued = 2
  /\ last.op = "toggleTask"
  /\ last.arg = "b"
  /\ last.pre = << [text |-> "b", completed |-> FALSE] >>
  /\ tasks = << [text |-> "b", completed |-> TRUE] >>

\* The panel became visible again: with the listener, and without one.
VisibleAgainOps == {"viewState", "viewStateNoListener"}

\* C18: whenever the panel becomes visible again while the instance is
\* open, the instance reloads tasks and note from persistence and posts
\* loadTasks and loadMarkdownContent with them.
C18_VisibleAgainReloads ==
  last.op \in VisibleAgainOps =>
    /\ tasks = PersistedTasks
    /\ last.effects = << Effect("postTasks", PersistedTasks, "", TRUE),
                         Effect("postNote", <<>>, PersistedNote, TRUE) >>
    /\ sentTasks = [sent |-> TRUE, tasks |-> PersistedTasks]
    /\ sentNote = [sent |-> TRUE, content |-> PersistedNote]

\* C19: every load reads and every save writes the slot of the workspace
\* folder that is first at that moment: after a load or a save of the
\* file-backed revision both paths lie under that folder, and are unset
\* when there is none.
C19_ScopeIsCurrent ==
  (variant = "file" /\ last.op \in LoadOps \cup Mutations \cup {"saveMarkdown"})
  => /\ tasksFilePath = workspaceFolders
     /\ markdownFilePath = workspaceFolders

\* The panel is open and a workspace folder is.
OpenWithWorkspace == currentPanel # NoPanel /\ workspaceFolders # None

\* C20: while the panel stays open with a workspace, content the user put
\* into the editor and leaves there is eventually posted as saveMarkdown
\* and the persisted note of the workspace eventually equals it.
C20_AutoSaveEventually ==
  \A c \in Contents :
    (OpenWithWorkspace /\ editor = [content |-> c, byUser |-> TRUE])
    ~> \/ PersistedNote = c /\ ~NoteSlotMissing
       \/ editor # [content |-> c, byUser |-> TRUE]
       \/ ~OpenWithWorkspace

\* The first effect of the last handler is a save that was written.
WrittenBy(kind) ==
  /\ last.effects # <<>>
  /\ last.effects[1].kind = kind
  /\ last.effects[1].done

Matches(ts, taskText) == \E i \in 1..Len(ts) : ts[i].text = taskText

\* C24: toggleTask(text) with no entry of that text is a no-op: the list
\* in memory and the persisted tasks slot stay as they are and no loadTasks
\* message is posted.
C24_ToggleNoMatchNoOp ==
  [][ (last'.op = "toggleTask" /\ ~Matches(tasks, last'.arg))
      => /\ tasks' = tasks
         /\ Persisted' = Persisted
         /\ sentVars' = sentVars
         /\ last'.effects = <<>> ]_vars

\* C24 witness: a toggle of a text that is not in a list that is not empty.
C24_Witness ==
  /\ last.op = "toggleTask"
  /\ last.effects = <<>>
  /\ tasks # <<>>
  /\ ~Matches(tasks, last.arg)
  /\ sentTasks = [sent |-> TRUE, tasks |-> tasks]

\* The last handler was saveMarkdown and did what it is to do with its
\* content: one save of the note, written unless the file-backed revision
\* has no path or met a write error, and the cached note replaced.
NoteSaved ==
  /\ Len(last.effects) = 1
  /\ last.effects[1].kind = "saveNote"
  /\ last.effects[1].content = last.arg
  /\ last.effects[1].done => NoteSlotHolds(last.arg)
  /\ last.effects[1].done => (variant = "file" => markdownFilePath # None)
  /\ ~last.effects[1].done => variant = "file"
  /\ variant = "keyed" => markdownContent = last.arg

\* C25: handling saveMarkdown(content) replaces the cached note with
\* content and saves it, and posts nothing to the surface: neither
\* loadMarkdownContent nor loadTasks; the task list is left alone.
C25_SaveMarkdownNoBroadcast ==
  [][ last'.op = "saveMarkdown"
      => /\ NoteSaved'
         /\ sentVars' = sentVars
         /\ tasks' = tasks ]_vars

\* C25 witness: the stored note was loaded and posted, then overwritten by
\* a saveMarkdown with the empty content; the surface was sent nothing new.
C25_Witness ==
  /\ last.op = "saveMarkdown"
  /\ last.arg = ""
  /\ WrittenBy("saveNote")
  /\ NoteSlotHolds("")
  /\ sentNote = [sent |-> TRUE, content |-> StoredNote]

\* C21: an add-task submission whose input is empty after trimming (empty
\* or whitespace only) is rejected in the surface: no addTask message with
\* such a text is posted, so none waits for the listener, and no such text
\* gets into the list, the persisted tasks or the rendering.
C21_BlankInputRejected ==
  /\ \A i \in 1..Len(inbox) :
       inbox[i].command = "addTask" => trim(inbox[i].text) # ""
  /\ \A i \in 1..Len(tasks) : trim(tasks[i].text) # ""
  /\ \A i \in 1..Len(rendered) : trim(rendered[i].text) # ""

\* The surface's handling of message, from the rendering ul and the editor
\* ed it has before.
listAfter(ul, message) ==
  IF message.command = "loadTasks" THEN renderTasks(ul, message.tasks) ELSE ul

editorAfterMessage(ed, message) ==
  IF message.command = "loadMarkdownContent" THEN setEditor(ed, message.content)
  ELSE ed

\* C22: handling a loadTasks message leaves the rendered list equal to the
\* message's tasks, entry by entry, whatever was rendered before, and
\* handling a loadMarkdownContent message leaves the editor showing the
\* message's content, whatever it held before; handling the same message a
\* second time changes nothing. Stated for every message that waits for
\* the surface, against the rendering and the editor the surface has.
C22_BroadcastReplacesWholesale ==
  \A i \in 1..Len(outbox) :
    LET message == outbox[i]
        ul == listAfter(rendered, message)
        ed == editorAfterMessage(editor, message)
    IN /\ message.command = "loadTasks" =>
            /\ Len(ul) = Len(message.tasks)
            /\ \A k \in 1..Len(ul) :
                 /\ ul[k].text = message.tasks[k].text
                 /\ ul[k].completed = message.tasks[k].completed
            /\ ul = listAfter(<<>>, message)
       /\ message.command = "loadMarkdownContent" =>
            /\ ed.content = (IF variant = "keyed" /\ message.content = ""
                             THEN EmptyEditor ELSE message.content)
            /\ ed = editorAfterMessage(FreshEditor, message)
       /\ listAfter(ul, message) = ul
       /\ editorAfterMessage(ed, message) = ed

\* A list was rendered and the editor filled before, and messages that
\* carry another list and another content wait, the same list twice.
C22_Witness ==
  /\ rendered # <<>>
  /\ \E i, j \in 1..Len(outbox) :
       /\ i < j
       /\ outbox[i].command = "loadTasks"
       /\ outbox[i] = outbox[j]
       /\ renderTasks(<<>>, outbox[i].tasks) # rendered

\* The editor shows a note, and a message with another content waits.
C22_WitnessEditor ==
  /\ editor.content \notin {"", EmptyEditor}
  /\ \E i \in 1..Len(outbox) :
       /\ outbox[i].command = "loadMarkdownContent"
       /\ setEditor(editor, outbox[i].content) # editor

\* The panel is open and no message waits in either direction.
Quiescent == listening /\ currentPanel # NoPanel /\ inbox = <<>> /\ outbox = <<>>

\* C26: once every message in flight, in both directions, is delivered, the
\* rendered list equals the in-memory list, and that list equals the
\* persisted tasks of the current scope (where there is a scope: always in
\* the keyed revision, with a workspace folder in the file-backed one).
C26_MirrorConverges ==
  Quiescent =>
    /\ rendered = renderTasks(<<>>, tasks)
    /\ (variant = "keyed" \/ workspaceFolders # None) => tasks = PersistedTasks

\* The step is a reload of the open instance whose broadcasts the surface
\* has handled, with no user edit in it.
ReloadStep ==
  /\ last'.op \in ReloadOps
  /\ inbox' = inbox
  /\ editor' = editor \/ ~editor'.byUser

\* What the editor shows of the note content c.
Shows(c) == IF variant = "keyed" /\ c = "" THEN EmptyEditor ELSE c

\* C27: in the keyed revision, when the surface is torn down, also by
\* closing the panel, the editor's content is flushed: the persisted note
\* ends up equal to the content the editor had at teardown.
C27_TeardownFlushes ==
  [][ (variant = "keyed" /\ currentPanel # NoPanel /\ last'.op = "dispose"
         /\ currentPanel' = NoPanel)
        => Shows(PersistedNote') = editor.content ]_vars

\* C28: after a reload whose broadcasts are delivered, with no user edit in
\* between, the editor shows the note persisted for the current scope, the
\* empty note when nothing is persisted (where there is a scope: always in
\* the keyed revision, with a workspace folder in the file-backed one).
C28_ReloadShowsPersisted ==
  [][ (ReloadStep /\ (variant = "keyed" \/ workspaceFolders # None))
        => editor'.content = Shows(PersistedNote') ]_vars

\* C29: a reload never replaces editor content the user typed that is not
\* yet persisted: when a reload overwrites what the user typed, that
\* content is already the persisted note.
C29_ReloadKeepsUnsaved ==
  [][ (ReloadStep /\ editor.byUser /\ editor' # editor)
        => Shows(PersistedNote) = editor.content ]_vars

\* C30: across a change of the workspace scope (file-backed revision), a
\* task or a note of one workspace is never written into the slot of a
\* different workspace: a value written into a folder's files that the user
\* typed for another folder was typed for that folder too. (A value is followed
\* from the folder it was typed for; what is loaded from a folder's slot
\* was typed for that folder or stored there before.)
C30_ScopesIsolated ==
  [][ variant = "file" =>
        \A entry \in held(files') \ held(files) :
          (\E other \in Folders \ {entry[3]} :
             << entry[1], entry[2], other >> \in origin)
            => entry \in origin ]_vars

\* The persisted notes and the persisted task lists, of either revision.
PersistedNotes ==
  << [w \in Folders |-> files[w].note], workspaceState.note >>

PersistedLists ==
  << [w \in Folders |-> files[w].tasks], workspaceState.tasks >>

\* C32: tasks and note are independent: addTask, deleteTask and toggleTask
\* leave the cached and the persisted note unchanged and post no note;
\* saveMarkdown leaves the in-memory and the persisted task list unchanged
\* and posts no list.
C32_TasksAndNoteIndependent ==
  [][ /\ last'.op \in Mutations =>
           /\ markdownContent' = markdownContent
           /\ PersistedNotes' = PersistedNotes
           /\ sentNote' = sentNote
      /\ last'.op = "saveMarkdown" =>
           /\ tasks' = tasks
           /\ PersistedLists' = PersistedLists
           /\ sentTasks' = sentTasks ]_vars

\* A task was added and written while a note is persisted.
C32_Witness ==
  /\ last.op = "addTask"
  /\ SaveWritten
  /\ PersistedNote = StoredNote
  /\ PersistedTasks = tasks

\* A note was saved and written while a list is persisted and in memory.
C32_WitnessNote ==
  /\ last.op = "saveMarkdown"
  /\ WrittenBy("saveNote")
  /\ tasks # <<>>
  /\ PersistedTasks = tasks

\* C33: handling toggleTask(text) twice in a row on a list that contains
\* text restores the list exactly, entries, order and completed flags, also
\* when several entries carry that text; the second broadcast carries the
\* restored list.
C33_ToggleInvolution ==
  [][ (/\ last.op = "toggleTask"
       /\ last.effects # <<>>
       /\ last'.op = "toggleTask"
       /\ last'.arg = last.arg)
        => /\ tasks' = last.pre
           /\ last'.effects # <<>>
           /\ sentTasks'.tasks = last.pre ]_vars

\* A toggle on a text that two entries carry undid an earlier one (keyed
\* revision, where only a toggle completes a task): the first entry is
\* back to open, the list before had it completed.
C33_Witness ==
  /\ variant = "keyed"
  /\ last.op = "toggleTask"
  /\ last.effects # <<>>
  /\ Len(tasks) = 2
  /\ tasks[1].text = last.arg
  /\ tasks[2].text = last.arg
  /\ last.pre[1].completed
  /\ ~tasks[1].completed
  /\ ~tasks[2].completed

\* C34: handling deleteTask(text) twice in a row leaves what handling it
\* once leaves: the second keeps the in-memory list, posts that list again,
\* and keeps the persisted list, or, where the first one's write was not
\* made, writes the list the first one's write would have left.
C34_DeleteIdempotent ==
  [][ (/\ last.op = "deleteTask"
       /\ last'.op = "deleteTask"
       /\ last'.arg = last.arg)
        => /\ tasks' = tasks
           /\ sentTasks'.tasks = tasks
           /\ \/ PersistedLists' = PersistedLists
              \/ ~last.effects[1].done /\ TasksSlotHolds(tasks)' ]_vars

\* A delete of a text no entry carries any more, as the second of two
\* deletes is; an entry with another text is left, in memory and persisted.
C34_Witness ==
  /\ last.op = "deleteTask"
  /\ last.pre = tasks
  /\ tasks # <<>>
  /\ \A i \in 1..Len(tasks) : tasks[i].text # last.arg
  /\ SaveWritten
  /\ TasksSlotHolds(tasks)

\* C35: a surface message whose command is none of addTask, deleteTask,
\* toggleTask and saveMarkdown is ignored: the in-memory list, the cached
\* note and the persisted slots are unchanged and nothing is posted.
C35_UnknownCommandIgnored ==
  [][ last'.op = "ignored" =>
        /\ tasks' = tasks
        /\ markdownContent' = markdownContent
        /\ Persisted' = Persisted
        /\ sentVars' = sentVars ]_vars

\* An unknown command was handled while a list is in memory and was posted.
C35_Witness ==
  /\ last.op = "ignored"
  /\ last.arg \notin {"addTask", "deleteTask", "toggleTask", "saveMarkdown"}
  /\ tasks # <<>>
  /\ sentTasks = [sent |-> TRUE, tasks |-> tasks]

\* What is still to be handled, a broadcast counting for the answer it can
\* cause as well.
RECURSIVE Pending(_)
Pending(messages) ==
  IF messages = <<>> THEN 0
  ELSE (IF Head(messages).command \in {"loadMarkdownContent", "addTask",
                                        "deleteTask", "toggleTask"}
        THEN 2 ELSE 1) + Pending(Tail(messages))

\* The step is the surface handling the oldest broadcast, or the listener
\* handling the oldest message of the inbox.
SurfaceHandles ==
  outbox # <<>> /\ outbox' = Tail(outbox) /\ currentPanel' = currentPanel

ListenerHandles ==
  inbox # <<>> /\ inbox' = Tail(inbox) /\ currentPanel' = currentPanel

\* C31 as stated: the load/save echo ends (keyed revision) and persists the
\* note that was loaded: a loadMarkdownContent the surface handles makes it
\* post at most one saveMarkdown, carrying exactly the loaded content, and
\* no broadcast; a saveMarkdown the listener handles persists its content
\* and posts nothing; every handling step leaves less to handle.
C31_EchoPersistsLoaded ==
  [][ variant = "keyed" =>
        /\ SurfaceHandles =>
             /\ Head(outbox).command = "loadMarkdownContent" =>
                  \/ inbox' = inbox
                  \/ inbox' = Append(inbox, Message("saveMarkdown", "",
                                                    Head(outbox).content))
             /\ Head(outbox).command = "loadTasks" => inbox' = inbox
             /\ Pending(inbox') + Pending(outbox') < Pending(inbox) + Pending(outbox)
        /\ ListenerHandles =>
             /\ Head(inbox).command = "saveMarkdown" =>
                  /\ outbox' = outbox
                  /\ PersistedNote' = Head(inbox).content
             /\ Pending(inbox') + Pending(outbox') < Pending(inbox) + Pending(outbox)
    ]_vars

\* C31 amended: the load/save echo ends (keyed revision): a
\* loadMarkdownContent the surface handles makes it post at most one
\* saveMarkdown, carrying the loaded note as the editor shows it (the empty
\* note as the empty document '<p><br></p>'), and no broadcast; a
\* saveMarkdown the listener handles persists its content and posts
\* nothing; so every handling step leaves less to handle than before, and
\* the note persisted by the echo is the loaded note as shown.
C31_EchoTerminates ==
  [][ variant = "keyed" =>
        /\ SurfaceHandles =>
             /\ Head(outbox).command = "loadMarkdownContent" =>
                  \/ inbox' = inbox
                  \/ inbox' = Append(inbox, Message("saveMarkdown", "",
                                                    Shows(Head(outbox).content)))
             /\ Head(outbox).command = "loadTasks" => inbox' = inbox
             /\ Pending(inbox') + Pending(outbox') < Pending(inbox) + Pending(outbox)
        /\ ListenerHandles =>
             /\ Head(inbox).command = "saveMarkdown" =>
                  /\ outbox' = outbox
                  /\ PersistedNote' = Head(inbox).content
             /\ Pending(inbox') + Pending(outbox') < Pending(inbox) + Pending(outbox)
    ]_vars

\* The echo has run to its end: the stored note was loaded into the fresh
\* editor, the change handler's saveMarkdown was handled, nothing waits,
\* and the persisted note is the one loaded and shown.
C31_Witness ==
  /\ variant = "keyed"
  /\ last.op = "saveMarkdown"
  /\ last.arg = StoredNote
  /\ editor = [content |-> StoredNote, byUser |-> FALSE]
  /\ PersistedNote = StoredNote
  /\ inbox = <<>>
  /\ outbox = <<>>

====
